---- MODULE Spec2Model ----
(***************************************************************************)
(* Model of the cbdix probing core (src/lib/core.py).                      *)
(*                                                                         *)
(* One behaviour is one call of check_bdix_connectivity(urls, concurrency):*)
(* the orchestrator creates the shared aiohttp session, fans out one       *)
(* check_url_connectivity task per endpoint through asyncio.gather, joins  *)
(* them, normalises the outcomes, closes the session and aggregates; or    *)
(* one standalone call of check_url_connectivity(url) without a session.   *)
(*                                                                         *)
(* Python values: Optional[T] is modelled as a set with at most one        *)
(* element (None == {}), an exception as a record [type, msg], a float     *)
(* ratio as an exact pair <<numerator, denominator>>.                      *)
(***************************************************************************)
EXTENDS Integers, Sequences, FiniteSets, TLC

\* ---------------------------------------------------------------- bounds
MaxUrls == 2
\* Longest hostname list handed to ping_hosts.
MaxHosts == 2

\* ------------------------------------------------------- python optionals
None == {}
Some(x) == {x}
Get(o) == CHOOSE v \in o : TRUE

\* ----------------------------------------------------------------- inputs
\* A URL is kept in parsed form; "[" is an unbalanced-bracket authority.
UrlA1 == [host |-> "a.example", path |-> "/1"]
UrlA2 == [host |-> "a.example", path |-> "/2"]
UrlB == [host |-> "b.example", path |-> "/"]
UrlBad == [host |-> "[", path |-> "/"]
Urls == {UrlA1, UrlA2, UrlB, UrlBad}
RedirectTarget == [host |-> "r.example", path |-> "/"]
\* A URL written with an upper-case host: the same resource as UrlA1.
UrlUpper == [host |-> "A.EXAMPLE", path |-> "/1"]
\* The URLs _check_single_url_http is called with directly.
DirectUrls == {UrlA1, UrlUpper, RedirectTarget}

RECURSIVE SeqsUpTo(_, _)
SeqsUpTo(S, n) ==
    IF n = 0 THEN {<<>>}
    ELSE LET shorter == SeqsUpTo(S, n - 1)
         IN shorter \cup {Append(s, x) : s \in {t \in shorter : Len(t) = n - 1}, x \in S}

\* utils.extract_hostname: URL-authority parsing; an unparseable authority
\* raises as urllib.parse does.
ExtractRaises(url) == url.host = "["
ExtractHostname(url) == url.host
ExtractError == [type |-> "ValueError", msg |-> "Invalid IPv6 URL"]

\* What icmplib.async_ping(hostname, count=3) can do: return a Host with
\* `received` answers out of 3 (packet_loss is the library's lost/sent
\* ratio), or raise.
AttemptCount == 3
PingReplies ==
    {[kind |-> "host", received |-> r] : r \in {0, 3}}
    \cup {[kind |-> "NameLookupError", msg |-> "cannot resolve"],
          [kind |-> "ICMPLibError", msg |-> "socket permission"],
          [kind |-> "Exception", msg |-> "boom"]}

\* The outcomes of async_ping inside a batch: the orchestrator branches on
\* is_alive alone, so one raising outcome stands for the three error classes.
BatchPingReplies ==
    {[kind |-> "host", received |-> r] : r \in {0, 3}}
    \cup {[kind |-> "NameLookupError", msg |-> "cannot resolve"]}

\* The outcomes of async_ping a direct call of _ping_single_host is given.
DirectPingReplies ==
    {[kind |-> "host", received |-> r] : r \in 0..AttemptCount}
    \cup {[kind |-> "NameLookupError", msg |-> "cannot resolve"],
          [kind |-> "ICMPLibError", msg |-> "socket permission"],
          [kind |-> "Exception", msg |-> "boom"]}
Hostnames == {"a.example", "b.example"}

\* icmplib's exception classes: NameLookupError derives from ICMPLibError,
\* which derives from Exception.
IsInstance(kind, class) ==
    \/ kind = class
    \/ class = "Exception"
    \/ kind = "NameLookupError" /\ class = "ICMPLibError"

\* What session.get(url, allow_redirects=True) can do: a final response
\* (status, final URL same as requested or not), or raise.
HttpReplies ==
    {[kind |-> "response", status |-> 200, moved |-> FALSE],
     [kind |-> "response", status |-> 302, moved |-> TRUE],
     [kind |-> "response", status |-> 400, moved |-> FALSE]}
    \cup {[kind |-> "ClientError", msg |-> "refused"],
          [kind |-> "TimeoutError", msg |-> ""],
          [kind |-> "Exception", msg |-> "boom"]}

\* The outcomes of session.get inside a batch: the orchestrator branches on
\* is_http_working alone, so one raising outcome stands for the three error
\* classes.
BatchHttpReplies ==
    {[kind |-> "response", status |-> 200, moved |-> FALSE],
     [kind |-> "response", status |-> 302, moved |-> TRUE],
     [kind |-> "response", status |-> 400, moved |-> FALSE]}
    \cup {[kind |-> "ClientError", msg |-> "refused"]}

\* The outcomes of session.get a direct call of _check_single_url_http is given.
DirectHttpReplies ==
    {[kind |-> "response", status |-> st, moved |-> mv] :
        st \in {200, 301, 302, 399, 400, 404, 500}, mv \in BOOLEAN}
    \cup {[kind |-> "ClientError", msg |-> "refused"],
          [kind |-> "TimeoutError", msg |-> ""],
          [kind |-> "Exception", msg |-> "boom"]}

\* The values of the concurrency argument (run -c N, type=int, unvalidated).
Concurrencies == {0, 1, 2}

\* An exception escaping check_url_connectivity from a collaborator call
\* outside the probes' try blocks (logging, lines 175-194).
CollaboratorError == [type |-> "RuntimeError", msg |-> "log sink failed"]

\* --------------------------------------------------------- pure functions
\* Variant: the ICMPLibError clause comes first and also takes DNS failures.
PingErrorGenericFirst(reply) ==
    IF IsInstance(reply.kind, "ICMPLibError") THEN Some(<<reply.msg>>)
    ELSE Some(<<"Unexpected error: ", reply.msg>>)

\* The error text of the except clause that takes the exception, in the
\* order the clauses are written.
PingError(reply) ==
    IF IsInstance(reply.kind, "NameLookupError") THEN Some(<<"DNS resolution failed">>)
    ELSE IF IsInstance(reply.kind, "ICMPLibError") THEN Some(<<reply.msg>>)
    ELSE Some(<<"Unexpected error: ", reply.msg>>)

\* _ping_single_host: normalise one async_ping outcome.
PingSingleHost(hostname, reply) ==
    IF reply.kind = "host" THEN
        LET alive == reply.received > 0
        IN [hostname |-> hostname,
            is_alive |-> alive,
            avg_rtt |-> IF alive THEN Some(5) ELSE None,
            packet_loss |-> <<AttemptCount - reply.received, AttemptCount>>,
            error |-> None]
    ELSE
        [hostname |-> hostname,
         is_alive |-> FALSE,
         avg_rtt |-> None,
         packet_loss |-> <<100, 1>>,
         error |-> PingError(reply)]

\* str(response.url): the URL of the final response in canonical text (the
\* host in lower case); without a redirect it is the requested URL's.
ResponseUrl(url, reply) ==
    IF reply.moved THEN RedirectTarget
    ELSE IF url.host = "A.EXAMPLE" THEN [url EXCEPT !.host = "a.example"]
    ELSE url

\* Variant: the boundary status 400 counts as working.
IsHttpWorkingInclusive(status) == status <= 400

\* response.status < 400  (2xx or 3xx considered working)
IsHttpWorking(status) == status < 400

\* Variant: the final URL is reported whether or not it differs.
RedirectsToAlways(url, final_url) == Some(final_url)

\* redirected = url != final_url; final_url if redirected else None
RedirectsTo(url, final_url) ==
    IF url # final_url THEN Some(final_url) ELSE None

\* _check_single_url_http: normalise one session.get outcome.
CheckSingleUrlHttp(url, reply) ==
    IF reply.kind = "response" THEN
        [url |-> url,
         http_status |-> Some(reply.status),
         redirects_to |-> RedirectsTo(url, ResponseUrl(url, reply)),
         is_http_working |-> IsHttpWorking(reply.status),
         error |-> None]
    ELSE
        [url |-> url,
         http_status |-> None,
         redirects_to |-> None,
         is_http_working |-> FALSE,
         error |-> IF reply.kind = "ClientError"
                      THEN Some(<<"Connection error: ", reply.msg>>)
                   ELSE IF reply.kind = "TimeoutError"
                      THEN Some(<<"Timeout">>)
                   ELSE Some(<<"Unexpected error: ", reply.msg>>)]

\* Variant: the verdict looks at the ping alone.
IsWorkingPingOnly(ping_result, http_result) == ping_result.is_alive

\* is_working = ping_result["is_alive"] and (http_result and
\* http_result["is_http_working"]); the falsy None of Python's `and` is FALSE.
IsWorking(ping_result, http_result) ==
    IF ~ping_result.is_alive THEN FALSE
    ELSE IF http_result = None THEN FALSE
    ELSE Get(http_result).is_http_working

\* The dict check_url_connectivity returns.
ConnectivityResult(url, hostname, ping_result, http_result) ==
    [url |-> url,
     hostname |-> hostname,
     ping_result |-> ping_result,
     http_result |-> http_result,
     is_working |-> IsWorking(ping_result, http_result)]

\* The fallback dict the orchestrator builds for a task that raised.
FallbackResult(url, exc) ==
    [url |-> url,
     hostname |-> ExtractHostname(url),
     ping_result |-> [hostname |-> ExtractHostname(url),
                      is_alive |-> FALSE,
                      avg_rtt |-> None,
                      packet_loss |-> <<100, 1>>,
                      error |-> Some(<<"Task failed: ", exc.msg>>)],
     http_result |-> None,
     is_working |-> FALSE]

\* ------------------------------------------------------------ aggregation
\* Variant: the working URLs are deduplicated at this layer.
WorkingUrlsDeduplicated(connectivity_results) ==
    LET working == SelectSeq(connectivity_results, LAMBDA r : r.is_working)
        firsts == {k \in 1..Len(working) :
                      \A j \in 1..(k - 1) : working[j].url # working[k].url}
        Pick[k \in 0..Len(working)] ==
            IF k = 0 THEN <<>>
            ELSE IF k \in firsts THEN Append(Pick[k - 1], working[k].url)
            ELSE Pick[k - 1]
    IN Pick[Len(working)]

\* working_urls = [result["url"] for result in connectivity_results
\*                 if result["is_working"]]
IsWorkingResult(r) == r.is_working
WorkingUrls(connectivity_results) ==
    LET working == SelectSeq(connectivity_results, IsWorkingResult)
    IN [k \in 1..Len(working) |-> working[k].url]

\* Variant: every result's hostname is counted, alive or not.
PingableHostsUnfiltered(connectivity_results) ==
    {connectivity_results[k].hostname : k \in 1..Len(connectivity_results)}

\* pingable_hosts: the set of hostnames of the results whose ping is alive.
PingableHosts(connectivity_results) ==
    {connectivity_results[k].hostname :
        k \in {j \in 1..Len(connectivity_results) :
                  connectivity_results[j].ping_result.is_alive}}

\* Variant: the ratio is left as a fraction, not scaled to percent.
SuccessRateFraction(working_count, total_urls) ==
    IF total_urls # 0 THEN <<working_count, total_urls>> ELSE <<0, 1>>

\* working_count / total_urls * 100 if total_urls else 0, as an exact ratio.
SuccessRate(working_count, total_urls) ==
    IF total_urls # 0 THEN <<working_count * 100, total_urls>> ELSE <<0, 1>>

\* The dict check_bdix_connectivity returns.
BuildReport(input, connectivity_results, http_check_enabled) ==
    LET working_urls == WorkingUrls(connectivity_results)
        total_urls == Len(input)
        working_count == Len(working_urls)
    IN [total_urls_tested |-> total_urls,
        working_urls |-> working_urls,
        working_count |-> working_count,
        success_rate |-> SuccessRate(working_count, total_urls),
        total_hosts |-> Cardinality(PingableHosts(connectivity_results)),
        connectivity_results |-> connectivity_results,
        http_check_enabled |-> http_check_enabled]

\* ------------------------------------------------------------------ state
VARIABLES
    urls,          \* the endpoint list passed in (each entry's "url")
    concurrency,   \* the concurrency argument, the connector's limit
    check_http,    \* the check_http argument (default True)
    pc,            \* where check_bdix_connectivity is ("idle": not called)
    session,       \* the shared ClientSession: "none", "open", "closed"
    closes,        \* how many times session.close() has run on it
    tasks,         \* one check_url_connectivity coroutine per endpoint
    overtaken,     \* a task has finished before an earlier-listed one
    processed,     \* connectivity_results after normalisation (optional)
    failure,       \* the exception propagating out of the call (optional)
    report,        \* the returned dict (optional)
    probes,        \* per endpoint: async_ping calls and GETs issued so far
    cli,           \* what handle_run did with the report (optional)
    solo,          \* a standalone check_url_connectivity(url) call
    unit           \* a direct call of a probe function or of ping_hosts

vars == <<urls, concurrency, check_http, pc, session, closes, tasks, overtaken, processed,
          failure, report, probes, cli, solo, unit>>

batchVars == <<urls, concurrency, check_http, pc, session, closes, tasks, overtaken, processed,
               failure, report, probes, cli>>

N == Len(urls)
Finished(t) == t.pc \in {"returned", "raised"}
Started(t) == t.pc # "new"
AllFinished == \A i \in 1..N : Finished(tasks[i])
\* Connections of the shared connector that are acquired right now.
InUse == Cardinality({i \in 1..Len(tasks) : tasks[i].pc = "http"})
\* ICMP probes awaiting their reply right now.
Pinging == Cardinality({i \in 1..Len(tasks) : tasks[i].pc = "ping"})

\* TCPConnector(limit=n): a connection is available when fewer than n are
\* acquired; limit 0 disables the limit.
ConnectionAvailable(limit, acquired) == limit = 0 \/ acquired < limit

NewTask(url) == [pc |-> "new", url |-> url]
PingingTask(url, hostname) == [pc |-> "ping", url |-> url, hostname |-> hostname]
HttpTask(at, url, hostname, ping_result) ==
    [pc |-> at, url |-> url, hostname |-> hostname, ping_result |-> ping_result]
ReturnedTask(url, value) == [pc |-> "returned", url |-> url, value |-> value]
RaisedTask(url, exc) == [pc |-> "raised", url |-> url, exc |-> exc]

IdleSolo == [pc |-> "idle"]
IdleUnit == [fn |-> "none"]

BatchInit ==
    /\ urls \in SeqsUpTo(Urls, MaxUrls)
    /\ concurrency \in Concurrencies
    /\ check_http \in BOOLEAN
    /\ pc = "entry"
    /\ solo = IdleSolo
    /\ unit = IdleUnit

SoloInit ==
    /\ urls = <<>>
    /\ concurrency = 0
    /\ check_http = TRUE
    /\ pc = "idle"
    /\ \E url \in Urls, supplied \in {"absent", "open"} :
          solo = [pc |-> "new", url |-> url, supplied |-> supplied,
                  private |-> "none"]
    /\ unit = IdleUnit

\* A direct call of _ping_single_host, of _check_single_url_http or of
\* ping_hosts.
UnitInit ==
    /\ urls = <<>>
    /\ concurrency = 0
    /\ check_http = TRUE
    /\ pc = "idle"
    /\ solo = IdleSolo
    /\ \/ \E hostname \in Hostnames, reply \in DirectPingReplies :
             unit = [fn |-> "ping", hostname |-> hostname, reply |-> reply,
                     out |-> None]
       \/ \E url \in DirectUrls, reply \in DirectHttpReplies :
             unit = [fn |-> "http", url |-> url, reply |-> reply, out |-> None]
       \/ \E hostnames \in SeqsUpTo(Hostnames, MaxHosts) :
             unit = [fn |-> "ping_hosts", hostnames |-> hostnames, started |-> 0,
                     inflight |-> {}, results |-> <<>>, out |-> None]

Init ==
    /\ BatchInit \/ SoloInit \/ UnitInit
    /\ probes = <<>>
    /\ cli = None
    /\ session = "none"
    /\ closes = 0
    /\ tasks = <<>>
    /\ overtaken = FALSE
    /\ processed = None
    /\ failure = None
    /\ report = None

\* -------------------------------------------------------- the orchestrator
\* aiohttp.ClientSession(...) raises: nothing was created, the call aborts.
SessionError == [type |-> "RuntimeError", msg |-> "no running event loop"]
CreateSessionFails ==
    /\ pc = "entry"
    /\ pc' = "raised"
    /\ failure' = Some(SessionError)
    /\ UNCHANGED <<urls, concurrency, check_http, session, closes, tasks, overtaken, processed,
                   report, solo, probes, cli,
                   unit>>

\* Session created, one coroutine per endpoint built, gather schedules them
\* and the orchestrator suspends in `await asyncio.gather(...)`.
FanOut ==
    /\ pc = "entry"
    /\ session' = "open"
    /\ tasks' = [i \in 1..N |-> NewTask(urls[i])]
    /\ probes' = [i \in 1..N |-> [icmp |-> 0, http |-> 0]]
    /\ pc' = "gather"
    /\ UNCHANGED <<urls, concurrency, check_http, closes, overtaken, processed, failure, report,
                   solo, cli, unit>>

\* ------------------------------------------------ check_url_connectivity
\* The tail of check_url_connectivity after the probes: verdict, logging,
\* return; `raises` is a collaborator call in that tail raising.
TaskEnd(t, ping_result, http_result, raises) ==
    IF raises THEN RaisedTask(t.url, CollaboratorError)
    ELSE ReturnedTask(t.url,
            ConnectivityResult(t.url, t.hostname, ping_result, http_result))

\* Task i finishes now: has it overtaken an earlier-listed task?
Overtakes(i) == \E j \in 1..(i - 1) : ~Finished(tasks[j])

\* First step of a task: extract the hostname and start the ICMP probe.
\* The event loop runs the first steps in the order gather scheduled them.
StartTask(i) ==
    /\ pc = "gather"
    /\ tasks[i].pc = "new"
    /\ \A j \in 1..(i - 1) : Started(tasks[j])
    /\ IF ExtractRaises(tasks[i].url)
          THEN /\ tasks' = [tasks EXCEPT ![i] = RaisedTask(tasks[i].url, ExtractError)]
               /\ overtaken' = (overtaken \/ Overtakes(i))
               /\ probes' = probes
          ELSE /\ tasks' = [tasks EXCEPT ![i] =
                               PingingTask(tasks[i].url, ExtractHostname(tasks[i].url))]
               /\ overtaken' = overtaken
               /\ probes' = [probes EXCEPT ![i].icmp = @ + 1]
    /\ UNCHANGED <<urls, concurrency, check_http, pc, session, closes, processed, failure, report,
                   solo, cli, unit>>

\* Variant: the HTTP stage runs whatever the ICMP stage found.
HttpStageAlways(ping_result) == TRUE

\* Variant: the HTTP stage is skipped when check_http is false.
HttpStageHonoursFlag(ping_result) == check_http /\ ping_result.is_alive

\* The HTTP stage runs only for a host the ICMP stage found alive.
HttpStageRuns(ping_result) == ping_result.is_alive

\* Variant: a failed GET is issued again.
RetriesHttpOnError(http_result) == http_result.error # None

\* Whether the core probes again after an outcome: every branch of
\* _ping_single_host and of _check_single_url_http returns its outcome.
RetriesPing(ping_result) == FALSE
RetriesHttp(http_result) == FALSE

\* The ICMP probe of task i completes; an alive host goes on to session.get
\* and waits for a pooled connection, any other outcome ends the task.
PingDone(i) ==
    /\ tasks[i].pc = "ping"
    /\ \E reply \in BatchPingReplies, raises \in BOOLEAN :
          LET ping_result == PingSingleHost(tasks[i].hostname, reply)
          IN IF RetriesPing(ping_result)
                THEN /\ ~raises
                     /\ tasks' = tasks
                     /\ overtaken' = overtaken
                     /\ probes' = [probes EXCEPT ![i].icmp = @ + 1]
             ELSE IF HttpStageRuns(ping_result)
                THEN /\ ~raises
                     /\ tasks' = [tasks EXCEPT ![i] =
                                     HttpTask("conn", tasks[i].url, tasks[i].hostname,
                                              ping_result)]
                     /\ overtaken' = overtaken
                     /\ probes' = [probes EXCEPT ![i].http = @ + 1]
                ELSE /\ tasks' = [tasks EXCEPT ![i] =
                                     TaskEnd(tasks[i], ping_result, None, raises)]
                     /\ overtaken' = (overtaken \/ Overtakes(i))
                     /\ probes' = probes
    /\ UNCHANGED <<urls, concurrency, check_http, pc, session, closes, processed, failure, report,
                   solo, cli, unit>>

\* session.get of task i obtains a connection from the shared connector.
AcquireConnection(i) ==
    /\ tasks[i].pc = "conn"
    /\ ConnectionAvailable(concurrency, InUse)
    /\ tasks' = [tasks EXCEPT ![i].pc = "http"]
    /\ UNCHANGED <<urls, concurrency, check_http, pc, session, closes, overtaken, processed,
                   failure, report, solo, probes, cli,
                   unit>>

\* The HTTP exchange of task i ends (response or error): the connection is
\* released and the task runs to its end.
HttpDone(i) ==
    /\ tasks[i].pc = "http"
    /\ \E reply \in BatchHttpReplies, raises \in BOOLEAN :
          LET http_result == CheckSingleUrlHttp(tasks[i].url, reply)
          IN IF RetriesHttp(http_result)
                THEN /\ ~raises
                     /\ tasks' = [tasks EXCEPT ![i].pc = "conn"]
                     /\ overtaken' = overtaken
                     /\ probes' = [probes EXCEPT ![i].http = @ + 1]
                ELSE /\ tasks' = [tasks EXCEPT ![i] =
                                     TaskEnd(tasks[i], tasks[i].ping_result,
                                             Some(http_result), raises)]
                     /\ overtaken' = (overtaken \/ Overtakes(i))
                     /\ probes' = probes
    /\ UNCHANGED <<urls, concurrency, check_http, pc, session, closes, processed, failure, report,
                   solo, cli, unit>>

\* ------------------------------------------------------- join and report
RECURSIVE Reverse(_)
Reverse(s) == IF s = <<>> THEN <<>> ELSE Append(Reverse(Tail(s)), Head(s))

\* Variant: outcomes are collected in completion order (for two tasks:
\* swapped when the second finished first).
GatherCompletionOrder(ts, out_of_order) ==
    IF out_of_order THEN Reverse(ts) ELSE ts

\* asyncio.gather(*tasks, return_exceptions=True): one outcome per task, in
\* the order the tasks were passed, whatever order they finished in.
GatherResults(ts, out_of_order) ==
    [i \in 1..Len(ts) |-> ts[i]]

\* gather returns when every task has finished.
JoinReady == AllFinished

\* The fallback for a raised task calls extract_hostname(url) again.
FallbackRaises(outcome) == outcome.pc = "raised" /\ ExtractRaises(outcome.url)

\* Variant: a task that raised is skipped instead of replaced.
ProcessResultsSkippingFailed(input, outcomes) ==
    LET kept == SelectSeq(outcomes, LAMBDA o : o.pc # "raised")
    IN [k \in 1..Len(kept) |-> kept[k].value]

\* for i, result in enumerate(connectivity_results): ... (lines 298-322)
ProcessResults(input, outcomes) ==
    [i \in 1..Len(outcomes) |->
        IF outcomes[i].pc = "raised"
           THEN FallbackResult(input[i], outcomes[i].exc)
           ELSE outcomes[i].value]

\* gather returns once every task has finished; the loop normalises the
\* outcomes, or raises out of the try block.
JoinAll ==
    /\ pc = "gather"
    /\ JoinReady
    /\ LET outcomes == GatherResults(tasks, overtaken)
       IN IF \E i \in 1..Len(outcomes) : FallbackRaises(outcomes[i])
             THEN /\ failure' = Some(ExtractError)
                  /\ processed' = processed
             ELSE /\ processed' = Some(ProcessResults(urls, outcomes))
                  /\ failure' = failure
    /\ pc' = "finally"
    /\ UNCHANGED <<urls, concurrency, check_http, session, closes, tasks, overtaken, report, solo, probes, cli,
                   unit>>

\* Variant: the close sits after the try block instead of in a finally.
ClosesOnlyOnSuccess(failed) == ~failed

\* finally: await session.close(), whether or not the try block raised.
ClosesInFinally(failed) == TRUE
CloseSession ==
    /\ pc = "finally"
    /\ IF ClosesInFinally(failure # None)
          THEN session' = "closed" /\ closes' = closes + 1
          ELSE UNCHANGED <<session, closes>>
    /\ pc' = "closed"
    /\ UNCHANGED <<urls, concurrency, check_http, tasks, overtaken, processed, failure, report,
                   solo, probes, cli,
                   unit>>

\* After the finally block the pending exception propagates.
Propagate ==
    /\ pc = "closed"
    /\ failure # None
    /\ pc' = "raised"
    /\ UNCHANGED <<urls, concurrency, check_http, session, closes, tasks, overtaken, processed,
                   failure, report, solo, probes, cli,
                   unit>>

\* After the finally block the report is aggregated and returned.
ReturnReport ==
    /\ pc = "closed"
    /\ failure = None
    /\ report' = Some(BuildReport(urls, Get(processed), check_http))
    /\ pc' = "returned"
    /\ UNCHANGED <<urls, concurrency, check_http, session, closes, tasks, overtaken, processed,
                   failure, solo, probes, cli,
                   unit>>

\* ------------------------------------------------- handle_run (main.py)
\* list(set(xs)): every element once, in an order the set iteration picks.
ListOfSet(xs) ==
    LET elems == {xs[i] : i \in 1..Len(xs)}
    IN {f \in [1..Cardinality(elems) -> elems] :
           \A x \in elems : \E i \in 1..Cardinality(elems) : f[i] = x}

\* Variant: the threshold of the colour highlight (50.0) decides the status.
FinalStatusHalf(success_rate) ==
    IF success_rate[1] = 0 THEN "none-working"
    ELSE IF success_rate[1] < 50 * success_rate[2] THEN "some-working"
    ELSE "all-working"

\* if success_rate == 0.0 / elif success_rate < 100.0 / else.
FinalStatus(success_rate) ==
    IF success_rate[1] = 0 THEN "none-working"
    ELSE IF success_rate[1] < 100 * success_rate[2] THEN "some-working"
    ELSE "all-working"

\* handle_run after `await check_bdix_connectivity(urls, ...)` returned:
\* deduplicate, write working-urls.txt when non-empty, log the final status.
\* handle_run returns before the batch when the url list is empty, and its
\* call leaves check_http at the default.
HandleRun ==
    /\ pc = "returned"
    /\ urls # <<>>
    /\ check_http = TRUE
    /\ cli = None
    /\ LET result == Get(report)
       IN \E working_urls_deduped \in ListOfSet(result.working_urls) :
             cli' = Some([file |-> IF working_urls_deduped # <<>>
                                      THEN Some(working_urls_deduped) ELSE None,
                          statuses |-> <<FinalStatus(result.success_rate)>>])
    /\ UNCHANGED <<urls, concurrency, check_http, pc, session, closes, tasks, overtaken, processed,
                   failure, report, solo, probes, unit>>

\* ----------------------- check_url_connectivity(url, session) standalone
\* `if session is None`: the call opens a client of its own.  The mutant
\* opens one whether or not the caller supplied a session.
CreatesPrivateAlways(session_arg) == TRUE
CreatesPrivate(session_arg) == session_arg = "absent"

SoloStart ==
    /\ solo.pc = "new"
    /\ solo' = IF ExtractRaises(solo.url)
                  THEN [pc |-> "raised", url |-> solo.url, supplied |-> solo.supplied,
                        private |-> solo.private, exc |-> ExtractError]
                  ELSE [pc |-> "ping", url |-> solo.url, supplied |-> solo.supplied,
                        private |-> solo.private,
                        hostname |-> ExtractHostname(solo.url)]
    /\ UNCHANGED <<batchVars, unit>>

SoloEnd(s, private, ping_result, http_result, raises) ==
    IF raises
       THEN [pc |-> "raised", url |-> s.url, supplied |-> s.supplied,
             private |-> private, exc |-> CollaboratorError]
       ELSE [pc |-> "returned", url |-> s.url, supplied |-> s.supplied,
             private |-> private,
             value |-> ConnectivityResult(s.url, s.hostname, ping_result, http_result)]

\* Ping done: an alive host awaits the GET, inside
\* `async with aiohttp.ClientSession(...)` when no session was supplied and
\* on the supplied session otherwise.
SoloPingDone ==
    /\ solo.pc = "ping"
    /\ \E reply \in PingReplies, raises \in BOOLEAN :
          LET ping_result == PingSingleHost(solo.hostname, reply)
          IN IF HttpStageRuns(ping_result)
                THEN /\ ~raises
                     /\ solo' = [pc |-> "http", url |-> solo.url,
                                 supplied |-> solo.supplied,
                                 private |-> IF CreatesPrivate(solo.supplied)
                                                THEN "open" ELSE solo.private,
                                 hostname |-> solo.hostname, ping_result |-> ping_result]
                ELSE solo' = SoloEnd(solo, solo.private, ping_result, None, raises)
    /\ UNCHANGED <<batchVars, unit>>

\* The GET ends.  Leaving the `async with` block awaits the private close;
\* with a supplied session the call runs straight to its end.
SoloHttpDone ==
    /\ solo.pc = "http"
    /\ \E reply \in HttpReplies, raises \in BOOLEAN :
          LET http_result == Some(CheckSingleUrlHttp(solo.url, reply))
          IN IF solo.private = "open"
                THEN /\ ~raises
                     /\ solo' = [pc |-> "exit", url |-> solo.url,
                                 supplied |-> solo.supplied, private |-> solo.private,
                                 hostname |-> solo.hostname,
                                 ping_result |-> solo.ping_result,
                                 http_result |-> http_result]
                ELSE solo' = SoloEnd(solo, solo.private, solo.ping_result,
                                     http_result, raises)
    /\ UNCHANGED <<batchVars, unit>>

\* The private session is closed; the call runs to its end.
SoloExit ==
    /\ solo.pc = "exit"
    /\ \E raises \in BOOLEAN :
          solo' = SoloEnd(solo, "closed", solo.ping_result, solo.http_result, raises)
    /\ UNCHANGED <<batchVars, unit>>

\* ------------------------------------------- direct calls of the probes
\* _ping_single_host(hostname, timeout) returns its PingOutcome.
UnitPing ==
    /\ unit.fn = "ping"
    /\ unit.out = None
    /\ unit' = [unit EXCEPT !.out = Some(PingSingleHost(unit.hostname, unit.reply))]
    /\ UNCHANGED <<batchVars, solo>>

\* _check_single_url_http(session, url, timeout) returns its HttpOutcome.
UnitHttp ==
    /\ unit.fn = "http"
    /\ unit.out = None
    /\ unit' = [unit EXCEPT !.out = Some(CheckSingleUrlHttp(unit.url, unit.reply))]
    /\ UNCHANGED <<batchVars, solo>>

\* ------------------------------------------ ping_hosts(hostnames, timeout)
\* The loop body awaits each probe before the next iteration starts.  The
\* mutant starts the next probe without awaiting the one in flight.
CanStartProbeConcurrently(inflight) == TRUE
CanStartProbe(inflight) == inflight = {}

\* `for hostname in hostnames`: the next iteration calls _ping_single_host.
SweepStart ==
    /\ unit.fn = "ping_hosts"
    /\ unit.out = None
    /\ unit.started < Len(unit.hostnames)
    /\ CanStartProbe(unit.inflight)
    /\ unit' = [unit EXCEPT !.started = @ + 1, !.inflight = @ \cup {unit.started + 1}]
    /\ UNCHANGED <<batchVars, solo>>

\* The awaited probe completes and its result is appended.
SweepDone ==
    /\ unit.fn = "ping_hosts"
    /\ \E i \in unit.inflight, reply \in PingReplies :
          unit' = [unit EXCEPT
                      !.inflight = @ \ {i},
                      !.results = Append(@, PingSingleHost(unit.hostnames[i], reply))]
    /\ UNCHANGED <<batchVars, solo>>

\* The loop is exhausted: `return results`.
SweepReturn ==
    /\ unit.fn = "ping_hosts"
    /\ unit.out = None
    /\ unit.started = Len(unit.hostnames)
    /\ unit.inflight = {}
    /\ unit' = [unit EXCEPT !.out = Some(unit.results)]
    /\ UNCHANGED <<batchVars, solo>>

Next ==
    \/ CreateSessionFails
    \/ FanOut
    \/ \E i \in 1..Len(tasks) : StartTask(i)
    \/ \E i \in 1..Len(tasks) : PingDone(i)
    \/ \E i \in 1..Len(tasks) : AcquireConnection(i)
    \/ \E i \in 1..Len(tasks) : HttpDone(i)
    \/ JoinAll
    \/ CloseSession
    \/ Propagate
    \/ ReturnReport
    \/ HandleRun
    \/ SoloStart
    \/ SoloPingDone
    \/ SoloHttpDone
    \/ SoloExit
    \/ UnitPing
    \/ UnitHttp
    \/ SweepStart
    \/ SweepDone
    \/ SweepReturn

Spec == Init /\ [][Next]_vars

\* The event loop keeps running ready callbacks and every awaited probe
\* completes: some enabled step is eventually taken.
FairSpec == Spec /\ WF_vars(Next)

\* ================================================================= claims
Returned == pc = "returned"
Results == Get(report).connectivity_results
RaisedTasks == {i \in 1..Len(tasks) : tasks[i].pc = "raised"}
ReturnedTasks == {i \in 1..Len(tasks) : tasks[i].pc = "returned"}

\* Every ConnectivityResult that exists in the state: returned by a task,
\* normalised by the orchestrator, listed in the report, returned solo.
AllResults ==
    {tasks[i].value : i \in ReturnedTasks}
    \cup (IF processed = None THEN {}
          ELSE {Get(processed)[i] : i \in 1..Len(Get(processed))})
    \cup (IF report = None THEN {} ELSE {Results[i] : i \in 1..Len(Results)})
    \cup (IF solo.pc = "returned" THEN {solo.value} ELSE {})

\* The shape of the synthetic result of a task that raised with `exc`.
IsSynthetic(r, exc) ==
    /\ ~r.ping_result.is_alive
    /\ r.ping_result.error = Some(<<"Task failed: ", exc.msg>>)
    /\ r.http_result = None
    /\ r.is_working = FALSE

C2_InputOrderPreserved ==
    Returned => \A i \in 1..N : Results[i].url = urls[i]

\* C2 witness: a later-listed task finished first, one task raised, the
\* endpoints differ, and the report still lines up with the input.
C2_Witness ==
    /\ Returned
    /\ overtaken
    /\ RaisedTasks # {}
    /\ \E i, j \in 1..N : urls[i] # urls[j]
    /\ \A i \in 1..N : Results[i].url = urls[i]

\* C3: once the tasks were launched the call ends with a report in which
\* every task that raised has the synthetic "Task failed: ..." result and
\* every other task has exactly the result it returned; a raising task never
\* aborts the batch or loses a sibling's result.
C3_TaskFailureIsolated ==
    (pc \in {"returned", "raised"} /\ session # "none") =>
        /\ report # None
        /\ \A i \in RaisedTasks : IsSynthetic(Results[i], tasks[i].exc)
        /\ \A i \in ReturnedTasks : Results[i] = tasks[i].value

\* C4: a result whose ping is not alive has no http_result, and an endpoint
\* is in its HTTP stage only after its own ICMP stage completed alive.
C4_HttpOnlyAfterAlivePing ==
    /\ \A r \in AllResults : ~r.ping_result.is_alive => r.http_result = None
    /\ \A i \in 1..Len(tasks) :
          tasks[i].pc \in {"conn", "http"} => tasks[i].ping_result.is_alive
    /\ solo.pc \in {"http", "exit"} => solo.ping_result.is_alive

\* C4 witness: a report holds a dead-ping result without http_result next
\* to an alive one with http_result.
C4_Witness ==
    /\ Returned
    /\ \E i, j \in 1..N :
          /\ ~Results[i].ping_result.is_alive /\ Results[i].http_result = None
          /\ Results[i].ping_result.error = None
          /\ Results[j].ping_result.is_alive /\ Results[j].http_result # None

\* The verdict the data model defines for a result.
Verdict(r) ==
    /\ r.ping_result.is_alive
    /\ r.http_result # None
    /\ \A h \in r.http_result : h.is_http_working

\* C5: is_working is ping alive AND http present AND http working; so it is
\* false after a failed ping, after any HTTP error and for any status >= 400.
C5_VerdictCombination ==
    \A r \in AllResults :
        /\ r.is_working = Verdict(r)
        /\ ~r.ping_result.is_alive => ~r.is_working
        /\ \A h \in r.http_result :
              /\ h.error # None => ~r.is_working
              /\ \A status \in h.http_status : status >= 400 => ~r.is_working

\* C5 witness: an alive host whose HTTP probe answered 400 is reported not
\* working, next to a working one.
C5_Witness ==
    \E r, w \in AllResults :
        /\ r.ping_result.is_alive
        /\ r.http_result # None
        /\ Get(r.http_result).http_status = Some(400)
        /\ ~r.is_working
        /\ w.is_working

\* The indices of the working results, and the k-th of them in input order.
WorkingIndices == {i \in 1..Len(Results) : Results[i].is_working}
KthWorking(k) ==
    CHOOSE i \in WorkingIndices :
        Cardinality({j \in WorkingIndices : j <= i}) = k

C7_DistinctAliveHosts ==
    Returned =>
        LET rep == Get(report)
            alive == {i \in 1..Len(Results) : Results[i].ping_result.is_alive}
        IN /\ rep.total_hosts = Cardinality({Results[i].hostname : i \in alive})
           /\ rep.total_hosts <= rep.total_urls_tested
           /\ rep.total_urls_tested = N

\* C7 witness: two different URLs share one alive hostname and count once.
C7_Witness ==
    /\ Returned
    /\ \E i, j \in 1..N :
          /\ urls[i] # urls[j]
          /\ Results[i].hostname = Results[j].hostname
          /\ Results[i].ping_result.is_alive
          /\ Results[j].ping_result.is_alive
    /\ Get(report).total_hosts = 1

\* success_rate as a ratio <<num, den>> compared with a whole number.
RateIs(rate, n) == rate[1] = n * rate[2]
RateFormula ==
    LET rep == Get(report)
    IN /\ rep.total_urls_tested = N
       /\ rep.working_count = Cardinality(WorkingIndices)
       /\ N > 0 => rep.success_rate[1] * N
                      = rep.working_count * 100 * rep.success_rate[2]
       /\ N = 0 => RateIs(rep.success_rate, 0)
       /\ rep.success_rate[2] > 0

\* C8 as stated: the rate is working_count / total * 100, 0 for an empty
\* batch, hence 100 iff every endpoint is working and 0 iff none is.
C8_AsStated ==
    Returned =>
        /\ RateFormula
        /\ RateIs(Get(report).success_rate, 100)
              <=> (\A i \in 1..N : Results[i].is_working)
        /\ RateIs(Get(report).success_rate, 0)
              <=> (\A i \in 1..N : ~Results[i].is_working)

\* C8 amended: the rate is working_count / total * 100, 0 for an empty
\* batch; it is 100 iff the batch is not empty and every endpoint is
\* working, and 0 iff none is.
C8_SuccessRate ==
    Returned =>
        /\ RateFormula
        /\ RateIs(Get(report).success_rate, 100)
              <=> (N > 0 /\ \A i \in 1..N : Results[i].is_working)
        /\ RateIs(Get(report).success_rate, 0)
              <=> (\A i \in 1..N : ~Results[i].is_working)

\* C8 witness: one of two endpoints works and the rate is 50.
C8_Witness ==
    /\ Returned
    /\ N = 2
    /\ Cardinality(WorkingIndices) = 1
    /\ RateIs(Get(report).success_rate, 50)

\* C9: the connections in use by the batch never exceed the concurrency
\* argument, whatever value was passed.
C9_ConnectionCap ==
    pc # "idle" => InUse <= concurrency

\* C10: the shared session exists before any task starts, is closed at
\* most once and only after every task finished, no task is in its HTTP
\* stage unless it is open, and every exit of a call that created it
\* (report returned or exception propagated) leaves it closed exactly once.
SessionCreated == ~(pc = "entry" \/ pc = "idle" \/ failure = Some(SessionError))
C10_SessionLifetime ==
    /\ \A i \in 1..Len(tasks) : Started(tasks[i]) => session # "none"
    /\ closes <= 1
    /\ (session = "closed") = (closes = 1)
    /\ session = "closed" => AllFinished /\ pc \in {"closed", "returned", "raised"}
    /\ \A i \in 1..Len(tasks) : tasks[i].pc \in {"conn", "http"} => session = "open"
    /\ Returned => session = "closed"
    /\ (pc = "raised" /\ SessionCreated) => session = "closed"
    /\ ~SessionCreated => session = "none"

\* C10 witness: result processing raised after a sibling used the session,
\* and the call ended with the session closed once.
C10_Witness ==
    /\ pc = "raised"
    /\ failure = Some(ExtractError)
    /\ closes = 1
    /\ session = "closed"
    /\ \E i \in ReturnedTasks : tasks[i].value.http_result # None

\* C11: the only exception that leaves check_bdix_connectivity is a failure
\* to construct the shared session; every endpoint-level failure, a task
\* raising on hostname extraction included, ends up as data in a report.
C11_OnlySessionFailureAborts ==
    pc = "raised" => failure = Some(SessionError)

\* Probe counts that hold for every endpoint whatever its task did.
ProbeCountsBounded ==
    \A i \in 1..Len(tasks) :
        /\ probes[i].icmp <= 1
        /\ probes[i].http <= 1
        /\ tasks[i].pc \in {"new", "ping"} => probes[i].http = 0
        /\ tasks[i].pc \in {"conn", "http"} => probes[i].http = 1
        /\ tasks[i].pc = "returned" =>
              (probes[i].http = 1) = tasks[i].value.ping_result.is_alive

\* C16 as stated: every endpoint of a batch causes exactly one ICMP probe
\* call and at most one GET (one iff its ping is alive); nothing is retried.
C16_AsStated ==
    /\ ProbeCountsBounded
    /\ \A i \in 1..Len(tasks) : Finished(tasks[i]) => probes[i].icmp = 1

\* C16 amended: every endpoint causes at most one GET (one iff its ping is
\* alive) and at most one ICMP probe call: exactly one, except none (and no
\* GET) for an endpoint whose task raised on hostname extraction before the
\* ping stage; nothing is retried.
C16_SingleAttempt ==
    /\ ProbeCountsBounded
    /\ \A i \in 1..Len(tasks) :
          Finished(tasks[i]) =>
              IF tasks[i].pc = "raised" /\ tasks[i].exc = ExtractError
                 THEN probes[i].icmp = 0 /\ probes[i].http = 0
                 ELSE probes[i].icmp = 1

\* C16 witness: a batch ended in which one endpoint's single GET failed and
\* another endpoint's single ping failed, each probed once.
C16_Witness ==
    /\ Returned
    /\ \E i, j \in ReturnedTasks :
          /\ tasks[i].value.http_result # None
          /\ Get(tasks[i].value.http_result).error # None
          /\ probes[i] = [icmp |-> 1, http |-> 1]
          /\ tasks[j].value.ping_result.error # None
          /\ probes[j] = [icmp |-> 1, http |-> 0]

\* Every HttpOutcome and every PingOutcome that exists in the state.
AllHttpOutcomes ==
    UNION {r.http_result : r \in AllResults}
    \cup (IF unit.fn = "http" THEN unit.out ELSE {})
    \cup (IF solo.pc = "exit" THEN solo.http_result ELSE {})
AllPingOutcomes ==
    {r.ping_result : r \in AllResults}
    \cup {tasks[i].ping_result : i \in {j \in 1..Len(tasks) : tasks[j].pc \in {"conn", "http"}}}
    \cup (IF unit.fn = "ping" THEN unit.out ELSE {})
    \cup (IF solo.pc \in {"http", "exit"} THEN {solo.ping_result} ELSE {})
HttpCallDone == unit.fn = "http" /\ unit.out # None
PingCallDone == unit.fn = "ping" /\ unit.out # None

\* C12: is_http_working holds iff http_status is present and below 400
\* (200, 301, 302 working; 400, 404, 500 not); an error outcome has no
\* status, no redirect, is not working and carries an error; a response
\* outcome carries no error.
C12_HttpWorkingIffBelow400 ==
    /\ \A h \in AllHttpOutcomes :
          /\ h.is_http_working = (h.http_status # None /\ \A st \in h.http_status : st < 400)
          /\ h.http_status = None =>
                h.redirects_to = None /\ ~h.is_http_working /\ h.error # None
          /\ h.http_status # None => h.error = None
    /\ HttpCallDone =>
          LET h == Get(unit.out)
          IN IF unit.reply.kind = "response"
                THEN /\ h.http_status = Some(unit.reply.status)
                     /\ unit.reply.status \in {200, 301, 302} => h.is_http_working
                     /\ unit.reply.status \in {400, 404, 500} => ~h.is_http_working
                ELSE h.http_status = None

\* C12 witness: a direct call answered with status 400 is reported not working.
C12_Witness ==
    /\ HttpCallDone
    /\ unit.reply.kind = "response"
    /\ unit.reply.status = 400
    /\ ~Get(unit.out).is_http_working
    /\ Get(unit.out).error = None

\* C13: for a response, redirects_to is the final URL when it differs from
\* the requested URL and null when they are equal, and http_status is the
\* status of the final response.
C13_RedirectTarget ==
    (HttpCallDone /\ unit.reply.kind = "response") =>
        LET h == Get(unit.out)
            final_url == ResponseUrl(unit.url, unit.reply)
        IN /\ final_url # unit.url => h.redirects_to = Some(final_url)
           /\ final_url = unit.url => h.redirects_to = None
           /\ h.http_status = Some(unit.reply.status)

\* C13 witness: a redirect that ends on the requested URL itself reports no
\* redirect target.
C13_Witness ==
    /\ HttpCallDone
    /\ unit.reply.kind = "response"
    /\ unit.reply.moved
    /\ unit.url = RedirectTarget
    /\ Get(unit.out).redirects_to = None

\* C14: _ping_single_host returns for every outcome of async_ping; a DNS
\* failure, another ICMP-library error and any other exception each get
\* their own error text with is_alive false, no avg_rtt and packet_loss
\* 100.0; no PingOutcome that is not alive has an avg_rtt.
C14_PingFailureTaxonomy ==
    /\ \A p \in AllPingOutcomes : ~p.is_alive => p.avg_rtt = None
    /\ PingCallDone =>
          LET p == Get(unit.out)
              r == unit.reply
              dns == Some(<<"DNS resolution failed">>)
          IN /\ p.hostname = unit.hostname
             /\ r.kind = "host" <=> p.error = None
             /\ r.kind = "NameLookupError" <=> p.error = dns
             /\ r.kind # "host" =>
                   /\ r.kind = "ICMPLibError" <=> p.error = Some(<<r.msg>>)
                   /\ r.kind = "Exception"
                         <=> p.error = Some(<<"Unexpected error: ", r.msg>>)
                   /\ ~p.is_alive /\ p.avg_rtt = None /\ p.packet_loss = <<100, 1>>

\* C14 witness: a direct call whose name lookup failed returned the DNS text.
C14_Witness ==
    /\ PingCallDone
    /\ unit.reply.kind = "NameLookupError"
    /\ Get(unit.out).error = Some(<<"DNS resolution failed">>)
    /\ Get(unit.out).packet_loss = <<100, 1>>

\* C15: packet_loss is a percentage between 0 and 100: after an exchange
\* that raised nothing it is the percentage of the 3 attempts left
\* unanswered, the scale of the 100.0 of the exception paths, so a host that
\* answers nothing is reported not alive with packet_loss 100.
C15_PacketLossPercent ==
    PingCallDone =>
        LET p == Get(unit.out)
            lost == AttemptCount - unit.reply.received
        IN /\ p.packet_loss[2] > 0
           /\ 0 <= p.packet_loss[1] /\ p.packet_loss[1] <= 100 * p.packet_loss[2]
           /\ unit.reply.kind = "host" =>
                 /\ p.packet_loss[1] * AttemptCount = lost * 100 * p.packet_loss[2]
                 /\ unit.reply.received = 0 =>
                       ~p.is_alive /\ RateIs(p.packet_loss, 100)

\* C17: no task is cancelled and the call ends only after every launched
\* task has finished, and it ends by returning its report.
C17_ReturnsAfterAllTasks ==
    /\ pc \in {"finally", "closed", "returned", "raised"} /\ session # "none"
          => AllFinished
    /\ pc \in {"returned", "raised"} /\ session # "none" => Returned

\* The part of C17 the code keeps: once the tasks are launched the call
\* eventually ends, and not before every task has finished.
BatchEnds ==
    (pc = "gather") ~> (pc \in {"returned", "raised"} /\ session # "none" /\ AllFinished)

\* C18: a standalone check_url_connectivity call without a session opens a
\* private client only after an alive ping, runs its one HTTP probe on it and
\* has closed it when the call has ended, by return or by exception; with a
\* supplied session the call opens no client and the supplied session stays
\* open.  Within a batch the shared session stays open and unclosed while
\* the tasks run.
C18_PrivateClientScoped ==
    /\ solo.pc # "idle" =>
          /\ solo.private # "none" => solo.supplied = "absent"
          /\ solo.supplied \in {"absent", "open"}
          /\ solo.pc \in {"new", "ping"} => solo.private = "none"
          /\ solo.pc = "http" =>
                /\ solo.ping_result.is_alive
                /\ solo.private = "open" <=> solo.supplied = "absent"
          /\ solo.pc = "exit" => solo.private = "open" /\ solo.ping_result.is_alive
          /\ solo.pc \in {"returned", "raised"} => solo.private # "open"
          /\ solo.pc = "returned" =>
                (solo.private = "closed"
                    <=> solo.supplied = "absent" /\ solo.value.ping_result.is_alive)
    /\ pc = "gather" => session = "open" /\ closes = 0

C18_Witness ==
    /\ solo.pc = "raised"
    /\ solo.private = "closed"

\* C19: ping_hosts has at most one ICMP probe in flight, starts the probe
\* of a hostname only after the probes of all earlier hostnames have
\* completed, and returns one PingOutcome per hostname in input order.
C19_SequentialSweep ==
    unit.fn = "ping_hosts" =>
       /\ Cardinality(unit.inflight) <= 1
       /\ \A i \in unit.inflight : Len(unit.results) = i - 1
       /\ Len(unit.results) <= Len(unit.hostnames)
       /\ \A i \in 1..Len(unit.results) :
             unit.results[i].hostname = unit.hostnames[i]
       /\ unit.out # None =>
             /\ Get(unit.out) = unit.results
             /\ Len(Get(unit.out)) = Len(unit.hostnames)

C19_Witness ==
    /\ unit.fn = "ping_hosts"
    /\ unit.out # None
    /\ Len(Get(unit.out)) = 2
    /\ Get(unit.out)[1].is_alive
    /\ ~Get(unit.out)[2].is_alive

\* C20: after a batch run handle_run logs exactly one final status,
\* none-working iff success_rate = 0, some-working iff 0 < success_rate < 100,
\* all-working iff success_rate = 100, and writes the results file iff some
\* url is working, the file holding each distinct working url exactly once.
C20_FinalStatusAndFile ==
    cli # None =>
       LET rep == Get(report)
           rate == rep.success_rate
           done == Get(cli)
           working == {rep.working_urls[i] : i \in 1..Len(rep.working_urls)}
       IN /\ Len(done.statuses) = 1
          /\ done.statuses[1] \in {"none-working", "some-working", "all-working"}
          /\ done.statuses[1] = "none-working" <=> RateIs(rate, 0)
          /\ done.statuses[1] = "some-working"
                <=> 0 < rate[1] /\ rate[1] < 100 * rate[2]
          /\ done.statuses[1] = "all-working" <=> RateIs(rate, 100)
          /\ done.file # None <=> working # {}
          /\ done.file # None =>
                LET lines == Get(done.file)
                IN /\ {lines[i] : i \in 1..Len(lines)} = working
                   /\ \A i, j \in 1..Len(lines) : lines[i] = lines[j] => i = j

\* Two working endpoints with the same url: one line in the file.
C20_Witness ==
    /\ cli # None
    /\ Len(Get(report).working_urls) = 2
    /\ Get(cli).file # None
    /\ Len(Get(Get(cli).file)) = 1

====
